---- MODULE Spec2Model ----
(***************************************************************************)
(* A model of package legal (src/pkg/legal/legal.go): Direction, Bearing,  *)
(* LinearMete, ArcMete and Description.Describe.                           *)
(*                                                                         *)
(* float64 values are modelled bit-exactly: a finite float64 is the record *)
(* [sg, m, e] with value sg * m * 2^e, where m is a 53-bit natural kept as *)
(* a little-endian sequence of 15-bit limbs (<<>> is zero).  Every         *)
(* arithmetic operation computes the exact result and rounds it to 53 bits *)
(* with ties to even, as IEEE-754 binary64 does.  NaN, infinities and      *)
(* subnormals are outside the model.                                       *)
(*                                                                         *)
(* Go strings are modelled as sequences of one-character strings.          *)
(***************************************************************************)
EXTENDS Integers, Sequences, FiniteSets, TLC

VARIABLES
  d,        \* Describe: the receiver *Description
  pc,       \* Describe: position in the function body
  idx,      \* Describe: the range index $i of the next mete
  prevtan,  \* Describe: the template variable $prevtan
  result,   \* Describe: the bytes.Buffer the template writes to
  legal,    \* Describe: the returned string
  emitted,  \* Describe: log of the clauses written so far (history variable)
  b,        \* the Bearing a method is called on / NewBearing returns
  err,      \* whether the last call returned an error
  angle,    \* the float64 last returned by ToAngle
  call,     \* the last call made: its name and arguments
  ret       \* the last call's return value, for calls that return one

vars == <<d, pc, idx, prevtan, result, legal, emitted, b, err, angle, call, ret>>

---------------------------------------------------------------------------
(* Natural numbers of any size: little-endian limbs below Base.            *)

LimbBits == 3 * 5
Base == 2^LimbBits
\* the width of a float64 significand
MantBits == 53

Limb(a, i) == IF i <= Len(a) THEN a[i] ELSE 0

RECURSIVE BTrim(_)
BTrim(a) == IF a = <<>> THEN a
            ELSE IF a[Len(a)] = 0 THEN BTrim(SubSeq(a, 1, Len(a) - 1)) ELSE a

RECURSIVE BAddFrom(_, _, _, _)
BAddFrom(a, c, i, carry) ==
  IF i > Len(a) /\ i > Len(c) THEN (IF carry = 0 THEN <<>> ELSE <<carry>>)
  ELSE LET s == Limb(a, i) + Limb(c, i) + carry
       IN <<s % Base>> \o BAddFrom(a, c, i + 1, s \div Base)

BAdd(a, c) == BAddFrom(a, c, 1, 0)

RECURSIVE BSubFrom(_, _, _, _)
BSubFrom(a, c, i, borrow) ==
  IF i > Len(a) THEN <<>>
  ELSE LET s == a[i] - Limb(c, i) - borrow
       IN IF s < 0 THEN <<s + Base>> \o BSubFrom(a, c, i + 1, 1)
          ELSE <<s>> \o BSubFrom(a, c, i + 1, 0)

\* a - c, for a >= c
BSub(a, c) == BTrim(BSubFrom(a, c, 1, 0))

RECURSIVE BCmpAt(_, _, _)
BCmpAt(a, c, i) == IF i = 0 THEN 0
                   ELSE IF a[i] > c[i] THEN 1
                   ELSE IF a[i] < c[i] THEN -1
                   ELSE BCmpAt(a, c, i - 1)

BCmp(a, c) == IF Len(a) > Len(c) THEN 1
              ELSE IF Len(a) < Len(c) THEN -1
              ELSE BCmpAt(a, c, Len(a))

RECURSIVE BMulSmallFrom(_, _, _, _)
BMulSmallFrom(a, k, i, carry) ==
  IF i > Len(a) THEN (IF carry = 0 THEN <<>> ELSE <<carry>>)
  ELSE LET p == a[i] * k + carry
       IN <<p % Base>> \o BMulSmallFrom(a, k, i + 1, p \div Base)

\* a * k, for 0 <= k < Base
BMulSmall(a, k) == IF k = 0 THEN <<>> ELSE BMulSmallFrom(a, k, 1, 0)

Zeros(n) == [i \in 1..n |-> 0]

RECURSIVE BMulFrom(_, _, _)
BMulFrom(a, c, i) ==
  IF i > Len(c) THEN <<>>
  ELSE BAdd(Zeros(i - 1) \o BMulSmall(a, c[i]), BMulFrom(a, c, i + 1))

BMul(a, c) == BTrim(BMulFrom(a, c, 1))

\* a * 2^n
BShl(a, n) == IF a = <<>> THEN a
              ELSE Zeros(n \div LimbBits) \o BMulSmall(a, 2^(n % LimbBits))

RECURSIVE BDivSmallFrom(_, _, _, _)
BDivSmallFrom(a, k, i, r) ==
  IF i = 0 THEN <<>>
  ELSE LET cur == r * Base + a[i]
       IN Append(BDivSmallFrom(a, k, i - 1, cur % k), cur \div k)

\* a \div 2^n
BShr(a, n) ==
  LET w == n \div LimbBits
  IN IF w >= Len(a) THEN <<>>
     ELSE BTrim(BDivSmallFrom(SubSeq(a, w + 1, Len(a)), 2^(n % LimbBits), Len(a) - w, 0))

\* the number of bits of a limb
BitLenSmall(x) == CHOOSE k \in 0..LimbBits : x < 2^k /\ (k = 0 \/ x >= 2^(k - 1))

BBitLen(a) == IF a = <<>> THEN 0 ELSE LimbBits * (Len(a) - 1) + BitLenSmall(a[Len(a)])

\* bit i of a, bit 0 the lowest
BBit(a, i) == (Limb(a, i \div LimbBits + 1) \div 2^(i % LimbBits)) % 2

\* the n lowest bits of a are all zero
BLowZero(a, n) == /\ \A j \in 1..(n \div LimbBits) : Limb(a, j) = 0
                  /\ Limb(a, n \div LimbBits + 1) % 2^(n % LimbBits) = 0

\* the quotient digit of Rn by B, given the estimate qh with qh - 2 <= digit <= qh
QuoDigit(Rn, B, qh) ==
  IF BCmp(BMulSmall(B, qh), Rn) <= 0 THEN qh
  ELSE IF BCmp(BMulSmall(B, qh - 1), Rn) <= 0 THEN qh - 1
  ELSE qh - 2

\* long division by limbs: limbs j..1 of A are still to be brought down; B's
\* top limb is at least Base / 2, so the estimate from the leading limbs is
\* at most 2 too large.  Rn is the remainder with the next limb brought
\* down, qh the estimate, q the digit, Rq the new remainder.
RECURSIVE BDivModAt(_, _, _, _, _)
BDivModAt(A, B, j, Q, R) ==
  IF j = 0 THEN <<Q, R>>
  ELSE LET Rest(q, Rq) == IF Len(Rq) >= 0 THEN BDivModAt(A, B, j - 1, <<q>> \o Q, Rq) ELSE <<>>
           Digit(Rn, q) == Rest(q, BSub(Rn, BMulSmall(B, q)))
           Estimate(Rn, qh) == Digit(Rn, QuoDigit(Rn, B, IF qh >= Base THEN Base - 1 ELSE qh))
           Bring(Rn) ==
             Estimate(Rn, (Limb(Rn, Len(B) + 1) * Base + Limb(Rn, Len(B))) \div B[Len(B)])
       IN Bring(BTrim(<<A[j]>> \o R))

\* <<A \div B, A % B>>, for B > 0: both are shifted by s bits so that B's top
\* limb is at least Base / 2
BDivMod(A, B) ==
  LET Result(r, s) == <<BTrim(r[1]), BShr(r[2], s)>>
      Divide(A2, B2, s) == Result(BDivModAt(A2, B2, Len(A2), <<>>, <<>>), s)
      Scale(s) == Divide(BShl(A, s), BShl(B, s), s)
  IN Scale(LimbBits * Len(B) - BBitLen(B))

RECURSIVE IntToB(_)
IntToB(n) == IF n = 0 THEN <<>> ELSE <<n % Base>> \o IntToB(n \div Base)

RECURSIVE BToInt(_)
BToInt(a) == IF a = <<>> THEN 0 ELSE a[1] + Base * BToInt(Tail(a))

---------------------------------------------------------------------------
(* float64                                                                 *)

Mk(sg, m, e) == [sg |-> sg, m |-> m, e |-> e]

\* dropping the s lowest bits of M rounds up: the first dropped bit is set
\* and either a lower bit is set or the bit kept last is set (ties to even)
RoundsUp(M, s) == BBit(M, s - 1) = 1 /\ (~BLowZero(M, s - 1) \/ BBit(M, s) = 1)

\* M \div 2^s rounded to nearest, ties to even
BShrRound(M, s) == IF RoundsUp(M, s) THEN BAdd(BShr(M, s), <<1>>) ELSE BShr(M, s)

\* sg * M * 2^E rounded to the nearest float64, ties to even
FRound(sg, M, E) ==
  LET Carry(q, e) == IF BBitLen(q) > MantBits THEN Mk(sg, BShr(q, 1), e + 1) ELSE Mk(sg, q, e)
      Fit(L) == IF L = 0 THEN Mk(sg, <<>>, 0)
                ELSE IF L <= MantBits THEN Mk(sg, BShl(M, MantBits - L), E - (MantBits - L))
                ELSE Carry(BShrRound(M, L - MantBits), E + (L - MantBits))
  IN Fit(BBitLen(M))

IsZero(x) == x.m = <<>>

\* float64(n) for an int n
FromInt(n) == IF n < 0 THEN FRound(-1, IntToB(-n), 0) ELSE FRound(1, IntToB(n), 0)

\* twice the quotient of qr = <<quotient, remainder>>, plus one when the
\* remainder is not zero (a sticky bit for the rounding)
WithSticky(qr) == BAdd(BMulSmall(qr[1], 2), IF qr[2] = <<>> THEN <<>> ELSE <<1>>)

\* the float64 nearest to N / D, for naturals N and D > 0
FromRatio(N, D) ==
  LET Quotient(s) == FRound(1, WithSticky(BDivMod(BShl(N, s), D)), -s - 1)
  IN Quotient(IF BBitLen(N) >= BBitLen(D) + MantBits + 3 THEN 0
              ELSE BBitLen(D) + MantBits + 3 - BBitLen(N))

FNeg(x) == Mk(-x.sg, x.m, x.e)

\* math.Abs
FAbs(x) == Mk(1, x.m, x.e)

\* x * y
FMul(x, y) == IF IsZero(x) \/ IsZero(y) THEN Mk(x.sg * y.sg, <<>>, 0)
              ELSE FRound(x.sg * y.sg, BMul(x.m, y.m), x.e + y.e)

\* x / y, for y # 0
FDiv(x, y) ==
  IF IsZero(x) THEN Mk(x.sg * y.sg, <<>>, 0)
  ELSE FRound(x.sg * y.sg, WithSticky(BDivMod(BShl(x.m, MantBits + 3), y.m)),
              x.e - y.e - MantBits - 4)

\* x + y: A and B are the significands at the common exponent e
FAdd(x, y) ==
  IF IsZero(x) /\ IsZero(y) THEN Mk(IF x.sg = -1 /\ y.sg = -1 THEN -1 ELSE 1, <<>>, 0)
  ELSE IF IsZero(x) THEN y ELSE IF IsZero(y) THEN x
  ELSE LET Signed(A, B, c, e) ==
             IF x.sg # y.sg /\ c = 0 THEN Mk(1, <<>>, 0)
             ELSE FRound(IF x.sg = y.sg \/ c > 0 THEN x.sg ELSE y.sg,
                         IF x.sg = y.sg THEN BAdd(A, B)
                         ELSE IF c > 0 THEN BSub(A, B) ELSE BSub(B, A),
                         e)
           Compare(A, B, e) == Signed(A, B, BCmp(A, B), e)
           Align(e) == Compare(BShl(x.m, x.e - e), BShl(y.m, y.e - e), e)
       IN Align(IF x.e < y.e THEN x.e ELSE y.e)

\* x - y
FSub(x, y) == FAdd(x, FNeg(y))

FCmpMag(x, y) == IF IsZero(x) THEN (IF IsZero(y) THEN 0 ELSE -1)
                 ELSE IF IsZero(y) THEN 1
                 ELSE IF x.e > y.e THEN 1
                 ELSE IF x.e < y.e THEN -1
                 ELSE BCmp(x.m, y.m)

Sgn(x) == IF IsZero(x) THEN 0 ELSE x.sg

FCmp(x, y) == IF Sgn(x) # Sgn(y) THEN (IF Sgn(x) > Sgn(y) THEN 1 ELSE -1)
              ELSE Sgn(x) * FCmpMag(x, y)

\* x < y, x == y, x <= y
FLt(x, y) == FCmp(x, y) < 0
FEq(x, y) == FCmp(x, y) = 0
FLe(x, y) == FCmp(x, y) <= 0

\* math.Floor
FFloor(x) ==
  IF IsZero(x) \/ x.e >= 0 THEN x
  ELSE LET Whole(ip) ==
             FRound(x.sg, IF x.sg = 1 \/ BLowZero(x.m, -x.e) THEN ip ELSE BAdd(ip, <<1>>), 0)
       IN Whole(BShr(x.m, -x.e))

\* int(x): truncation toward zero (|x| < 2^31 in this model)
FToInt(x) == IF IsZero(x) THEN 0
             ELSE IF x.e >= 0 THEN x.sg * BToInt(BShl(x.m, x.e))
             ELSE x.sg * BToInt(BShr(x.m, -x.e))

\* math.Mod(x, y) for y > 0: exact, with the sign of x
FMod(x, y) ==
  IF FCmpMag(x, y) < 0 THEN x
  ELSE FRound(x.sg, BDivMod(BShl(x.m, x.e - y.e), y.m)[2], y.e)

\* the constants of package math and the constant expressions built from
\* them, each the float64 nearest to the exact value
\* math.Pi = 0x1.921fb54442d18p+1
Pi == Mk(1, <<11544, 10376, 2029, 201>>, -51)
\* math.Pi/4 = 0x1.921fb54442d18p-1
PiOver4 == Mk(1, <<11544, 10376, 2029, 201>>, -53)
\* math.Pi/2 = 0x1.921fb54442d18p+0
PiOver2 == Mk(1, <<11544, 10376, 2029, 201>>, -52)
\* math.Pi*3/4 = 0x1.2d97c7f3321d2p+1
Pi3Over4 == Mk(1, <<8658, 32358, 26097, 150>>, -51)
\* 2*math.Pi = 0x1.921fb54442d18p+2
TwoPi == Mk(1, <<11544, 10376, 2029, 201>>, -50)
\* math.Pi*3.0/2.0 = 0x1.2d97c7f3321d2p+2
Pi3Over2 == Mk(1, <<8658, 32358, 26097, 150>>, -50)
FZero == Mk(1, <<>>, 0)

---------------------------------------------------------------------------
(* strings: sequences of one-character strings                             *)

Digits == <<"0", "1", "2", "3", "4", "5", "6", "7", "8", "9">>
Lower == <<"a", "b", "c", "d", "e", "f", "g", "h", "i", "j", "k", "l", "m", "n", "o", "p", "q",
      "r", "s", "t", "u", "v", "w", "x", "y", "z">>
Upper == <<"A", "B", "C", "D", "E", "F", "G", "H", "I", "J", "K", "L", "M", "N", "O", "P", "Q",
      "R", "S", "T", "U", "V", "W", "X", "Y", "Z">>
\* the degree sign U+00B0, one character
DegreeSign == "<deg>"

IsDigit(c) == \E k \in 1..Len(Digits) : Digits[k] = c
DigitVal(c) == (CHOOSE k \in 1..Len(Digits) : Digits[k] = c) - 1
IsSpace(c) == c \in {" ", "\t", "\n", "\r"}

ToUpperCh(c) == IF \E k \in 1..Len(Lower) : Lower[k] = c
                THEN Upper[CHOOSE k \in 1..Len(Lower) : Lower[k] = c]
                ELSE c
\* strings.ToUpper
ToUpper(s) == [k \in 1..Len(s) |-> ToUpperCh(s[k])]

\* strings.TrimSpace
TrimSpace(s) ==
  LET keep == {k \in 1..Len(s) : ~IsSpace(s[k])}
  IN IF keep = {} THEN <<>>
     ELSE SubSeq(s, CHOOSE k \in keep : \A j \in keep : k <= j,
                    CHOOSE k \in keep : \A j \in keep : j <= k)

NotSpace(c) == ~IsSpace(c)
\* strings.Join(strings.Fields(s), "")
JoinFields(s) == SelectSeq(s, NotSpace)

\* strings.LastIndex(s, c) for a one-character c, as a 1-based position; 0 for -1
LastIndex(s, c) ==
  LET at == {k \in 1..Len(s) : s[k] = c}
  IN IF at = {} THEN 0 ELSE CHOOSE k \in at : \A j \in at : j <= k

RECURSIVE Itoa(_)
Itoa(n) == IF n < 10 THEN <<Digits[n + 1]>>
           ELSE Append(Itoa(n \div 10), Digits[(n % 10) + 1])
\* the verb %d
FormatInt(n) == IF n < 0 THEN <<"-">> \o Itoa(-n) ELSE Itoa(n)

\* the verb %.2f: the exact value rounded to two decimals, ties to even
\* (|x| < 2^31 / 100 in this model)
FormatFixed2(x) ==
  LET Text(v) ==
        (IF x.sg = -1 THEN <<"-">> ELSE <<>>)
          \o Itoa(v \div 100) \o <<".", Digits[((v \div 10) % 10) + 1], Digits[(v % 10) + 1]>>
      Hundredths(M) == IF x.e >= 0 THEN BShl(M, x.e) ELSE BShrRound(M, -x.e)
  IN Text(BToInt(Hundredths(BMulSmall(x.m, 100))))

\* the default format of a float64 in a template ({{.Area}}), which for an
\* integral value below 1e21 is the integer's digits; the model's areas are
\* integral
FormatValue(x) == FormatInt(FToInt(x))

RECURSIVE AtoiFrom(_, _, _)
AtoiFrom(s, k, acc) == IF k > Len(s) THEN acc ELSE AtoiFrom(s, k + 1, 10 * acc + DigitVal(s[k]))
\* strconv.Atoi on a string of digits (short enough not to overflow)
Atoi(s) == AtoiFrom(s, 1, 0)

RECURSIVE DigitsToB(_, _, _)
DigitsToB(s, k, acc) ==
  IF k > Len(s) THEN acc
  ELSE DigitsToB(s, k + 1, BAdd(BMulSmall(acc, 10), IntToB(DigitVal(s[k]))))

RECURSIVE BPow10(_)
BPow10(n) == IF n = 0 THEN <<1>> ELSE BMulSmall(BPow10(n - 1), 10)

\* strconv.ParseFloat on digits[.digits]: the float64 nearest to the decimal
ParseFloat(s) ==
  LET Value(N, dot) ==
        IF N = <<>> THEN FZero ELSE FromRatio(N, BPow10(IF dot = 0 THEN 0 ELSE Len(s) - dot))
  IN Value(DigitsToB(SelectSeq(s, IsDigit), 1, <<>>), LastIndex(s, "."))

---------------------------------------------------------------------------
(* Direction                                                               *)

North == 0
NorthEast == 1
East == 2
SouthEast == 3
South == 4
SouthWest == 5
West == 6
NorthWest == 7
Directions == North..NorthWest

\* the array dirNames of Direction.Describe
DirNames == << <<"N", "O", "R", "T", "H">>, <<"N", "O", "R", "T", "H", "E", "A", "S", "T">>, <<"E",
      "A", "S", "T">>, <<"S", "O", "U", "T", "H", "E", "A", "S", "T">>,
               <<"S", "O", "U", "T", "H">>, <<"S", "O", "U", "T", "H", "W", "E", "S", "T">>, <<"W",
                     "E", "S", "T">>, <<"N", "O", "R", "T", "H", "W", "E", "S", "T">> >>

\* dirMap(): the map's keys with their values
dirMap == { <<<<"N", "O", "R", "T", "H">>, North>>, <<<<"N", "O", "R", "T", "H", "E", "A", "S",
      "T">>, NorthEast>>, <<<<"E", "A", "S", "T">>, East>>,
            <<<<"S", "O", "U", "T", "H", "E", "A", "S", "T">>, SouthEast>>, <<<<"S", "O", "U", "T",
                  "H">>, South>>,
            <<<<"S", "O", "U", "T", "H", "W", "E", "S", "T">>, SouthWest>>, <<<<"W", "E", "S",
                  "T">>, West>>,
            <<<<"N", "O", "R", "T", "H", "W", "E", "S", "T">>, NorthWest>>,
            <<<<"N">>, North>>, <<<<"N", "E">>, NorthEast>>, <<<<"E">>, East>>,
            <<<<"S", "E">>, SouthEast>>, <<<<"S">>, South>>, <<<<"S", "W">>, SouthWest>>,
            <<<<"W">>, West>>, <<<<"N", "W">>, NorthWest>> }

\* a faulty DirectionFromString, which looks s up without upper-casing it
DirectionFromStringCaseSensitive(s) ==
  LET u == TrimSpace(s)
  IN IF \E kv \in dirMap : kv[1] = u
     THEN <<(CHOOSE kv \in dirMap : kv[1] = u)[2], TRUE>>
     ELSE <<0, FALSE>>

\* DirectionFromString(s): <<d, ok>>
DirectionFromString(s) ==
  LET u == TrimSpace(ToUpper(s))
  IN IF \E kv \in dirMap : kv[1] = u
     THEN <<(CHOOSE kv \in dirMap : kv[1] = u)[2], TRUE>>
     ELSE <<0, FALSE>>

DirectionFromAngle(theta) ==
  LET a == FMod(theta, TwoPi)
  IN IF FEq(a, FZero) THEN North
     ELSE IF FLt(a, PiOver4) THEN NorthEast
     ELSE IF FEq(a, PiOver4) THEN East
     ELSE IF FLt(a, PiOver2) THEN SouthEast
     ELSE IF FEq(a, PiOver2) THEN South
     ELSE IF FLt(a, Pi3Over4) THEN SouthWest
     ELSE IF FEq(a, Pi3Over4) THEN West
     ELSE NorthWest

\* Direction.Describe
DirDescribe(dir) == DirNames[dir + 1]

---------------------------------------------------------------------------
(* Bearing                                                                 *)

Bearing(p, dg, mn, sc, snd) == [primary |-> p, deg |-> dg, min |-> mn, sec |-> sc,
      secondary |-> snd]

\* Bearing{}
ZeroBearing == Bearing(North, 0, 0, FZero, North)

\* a faulty NewBearing, whose upper limits are exclusive
NewBearingExclusive(p, snd, dg, mn, sc) ==
  IF p % 2 # 0 \/ snd % 2 # 0 THEN [b |-> ZeroBearing, err |-> TRUE]
  ELSE IF dg < 0 \/ dg >= 90 \/ mn < 0 \/ mn >= 60 \/ FLt(sc, FZero) \/ FLe(FromInt(60), sc)
       THEN [b |-> ZeroBearing, err |-> TRUE]
  ELSE [b |-> Bearing(p, dg, mn, sc, snd), err |-> FALSE]

\* NewBearing(p, snd, d, m, s): the pair returned, err as a boolean
NewBearing(p, snd, dg, mn, sc) ==
  IF p % 2 # 0 \/ snd % 2 # 0 THEN [b |-> ZeroBearing, err |-> TRUE]
  ELSE IF dg < 0 \/ dg > 90 \/ mn < 0 \/ mn > 60 \/ FLt(sc, FZero) \/ FLt(FromInt(60), sc)
       THEN [b |-> ZeroBearing, err |-> TRUE]
  ELSE [b |-> Bearing(p, dg, mn, sc, snd), err |-> FALSE]

\* Bearing.Describe: "%s %d<deg>%d'%.2f\" %s"
BearingDescribe(bb) ==
  DirDescribe(bb.primary) \o <<" ">> \o FormatInt(bb.deg) \o <<DegreeSign>>
    \o FormatInt(bb.min) \o <<"'">> \o FormatFixed2(bb.sec) \o <<"\"", " ">>
    \o DirDescribe(bb.secondary)

\* the quadrant switch of FromAngle: <<primary, secondary, remaining theta>>
Quadrant(theta) ==
  IF FLt(theta, PiOver2) THEN <<North, East, theta>>
  ELSE IF FLt(theta, Pi) THEN <<South, East, FSub(Pi, theta)>>
  ELSE IF FLt(theta, Pi3Over2) THEN <<South, West, FSub(theta, Pi)>>
  ELSE <<North, West, FSub(TwoPi, theta)>>

\* the negative-angle branch and the reduction at the top of FromAngle
Reduce(theta) ==
  FMod(IF FLt(theta, FZero) THEN FAdd(FAbs(theta), Pi) ELSE theta, TwoPi)

\* a faulty FromAngle, which rounds the minutes to the nearest whole number
FromAngleRounded(theta) ==
  LET Seconds(q, degrees, totalMinutes, minutes) ==
        Bearing(q[1], FToInt(degrees), FToInt(minutes),
                FMul(FSub(totalMinutes, minutes), FromInt(60)), q[2])
      Minutes(q, degrees, totalMinutes) ==
        Seconds(q, degrees, totalMinutes, FFloor(FAdd(totalMinutes, FDiv(FromInt(1), FromInt(2)))))
      TotalMinutes(q, total, degrees) ==
        Minutes(q, degrees, FMul(FSub(total, degrees), FromInt(60)))
      Degrees(q, total) == TotalMinutes(q, total, FFloor(total))
      Total(q) == Degrees(q, FDiv(FMul(q[3], FromInt(180)), Pi))
  IN Total(Quadrant(Reduce(theta)))

\* Bearing.FromAngle(theta): the receiver afterwards (every field is
\* assigned).  Each local operator takes the values computed so far and adds
\* the next assignment of lines 146-150.
FromAngle(theta) ==
  LET Seconds(q, degrees, totalMinutes, minutes) ==
        Bearing(q[1], FToInt(degrees), FToInt(minutes),
                FMul(FSub(totalMinutes, minutes), FromInt(60)), q[2])
      Minutes(q, degrees, totalMinutes) ==
        Seconds(q, degrees, totalMinutes, FFloor(totalMinutes))
      TotalMinutes(q, total, degrees) ==
        Minutes(q, degrees, FMul(FSub(total, degrees), FromInt(60)))
      Degrees(q, total) == TotalMinutes(q, total, FFloor(total))
      Total(q) == Degrees(q, FDiv(FMul(q[3], FromInt(180)), Pi))
  IN Total(Quadrant(Reduce(theta)))

\* a faulty ToAngle, which turns clockwise in the North-East quadrant only
ToAngleNorthEastOnly(bb) ==
  LET start    == IF bb.primary = North THEN FZero ELSE FromInt(180)
      rotation == IF bb.primary = North /\ bb.secondary = East
                  THEN FromInt(1) ELSE FromInt(-1)
      dms      == FAdd(FAdd(FromInt(bb.deg), FDiv(FromInt(bb.min), FromInt(60))),
                       FDiv(bb.sec, FromInt(3600)))
  IN FMul(FDiv(FAdd(start, FMul(rotation, dms)), FromInt(180)), Pi)

\* Bearing.ToAngle
ToAngle(bb) ==
  LET start    == IF bb.primary = North THEN FZero ELSE FromInt(180)
      rotation == IF (bb.primary = North /\ bb.secondary = East)
                     \/ (bb.primary = South /\ bb.secondary = West)
                  THEN FromInt(1) ELSE FromInt(-1)
      dms      == FAdd(FAdd(FromInt(bb.deg), FDiv(FromInt(bb.min), FromInt(60))),
                       FDiv(bb.sec, FromInt(3600)))
  IN FMul(FDiv(FAdd(start, FMul(rotation, dms)), FromInt(180)), Pi)

\* regBearing:
\* (?P<primary>[N|S])\D*(?P<deg>\d+)[D|<deg>](?P<min>\d+)[M|'](?P<sec>\d+\.?\d*)[S|"](?P<secondary>[E|W])
\* the first position at or after k that holds no digit (Len(s) + 1 if none)
DigitsEnd(s, k) ==
  CHOOSE j \in k..(Len(s) + 1) :
    /\ (j <= Len(s) => ~IsDigit(s[j]))
    /\ \A h \in k..(j - 1) : IsDigit(s[h])
\* the first position at or after k that holds a digit (Len(s) + 1 if none)
NonDigitsEnd(s, k) ==
  CHOOSE j \in k..(Len(s) + 1) :
    /\ (j <= Len(s) => IsDigit(s[j]))
    /\ \A h \in k..(j - 1) : ~IsDigit(s[h])

At(s, k, class) == k <= Len(s) /\ s[k] \in class

\* the submatches of regBearing matched at position p of s, or <<>>.  Each
\* repetition is greedy and is followed by a character its own class
\* excludes, so the match at p is unique.  d1, d2, m2, s2, s3 are the
\* positions where \D*, deg, min, the integer part of sec and sec end.
MatchAt(s, p) ==
  LET End(d1, d2, m2, s2, s3) ==
        IF /\ At(s, p, {"N", "|", "S"})
           /\ d2 > d1 /\ At(s, d2, {"D", "|", DegreeSign})
           /\ m2 > d2 + 1 /\ At(s, m2, {"M", "|", "'"})
           /\ s2 > m2 + 1 /\ At(s, s3, {"S", "|", "\""})
           /\ At(s, s3 + 1, {"E", "|", "W"})
        THEN << SubSeq(s, p, s3 + 1), <<s[p]>>, SubSeq(s, d1, d2 - 1), SubSeq(s, d2 + 1, m2 - 1),
                SubSeq(s, m2 + 1, s3 - 1), <<s[s3 + 1]>> >>
        ELSE <<>>
      Frac(d1, d2, m2, s2) ==
        End(d1, d2, m2, s2, IF At(s, s2, {"."}) THEN DigitsEnd(s, s2 + 1) ELSE s2)
      Sec(d1, d2, m2) == Frac(d1, d2, m2, DigitsEnd(s, m2 + 1))
      Min(d1, d2) == Sec(d1, d2, DigitsEnd(s, d2 + 1))
      Deg(d1) == Min(d1, DigitsEnd(s, d1))
  IN Deg(NonDigitsEnd(s, p + 1))

\* regBearing.FindStringSubmatch(s): the leftmost match
FindStringSubmatch(s) ==
  LET First(at) == IF at = {} THEN <<>> ELSE MatchAt(s, CHOOSE p \in at : \A r \in at : p <= r)
  IN First({p \in 1..Len(s) : MatchAt(s, p) # <<>>})

\* Bearing.FromString(strsrc) on receiver bb: the receiver afterwards and
\* whether an error was returned.  Atoi and ParseFloat cannot fail on the
\* digit strings the pattern captures (short of overflow), so the only error
\* returns are the ones below.
FromString(bb, strsrc) ==
  LET Assign(primary, secondary, b4) ==
        IF ~primary[2] THEN [b |-> bb, err |-> TRUE]
        ELSE IF ~secondary[2] THEN [b |-> b4, err |-> TRUE]
        ELSE [b |-> [b4 EXCEPT !.secondary = secondary[1]], err |-> FALSE]
      Parse(subs) ==
        IF Len(subs) # 6 THEN [b |-> bb, err |-> TRUE]
        ELSE Assign(DirectionFromString(subs[2]), DirectionFromString(subs[6]),
                    Bearing(DirectionFromString(subs[2])[1], Atoi(subs[3]), Atoi(subs[4]),
                            ParseFloat(subs[5]), bb.secondary))
  IN Parse(FindStringSubmatch(ToUpper(JoinFields(strsrc))))

---------------------------------------------------------------------------
(* Mete: LinearMete and ArcMete                                            *)

\* NewLinearMete(angle, distance, unit)
NewLinearMete(theta, distance, unit) ==
  [kind |-> "LinearMete", bearing |-> theta, distance |-> distance, unit |-> unit]

\* LinearMete.Tangent
LinearTangent(m) == m.bearing

\* LinearMete.Describe: "%s A DISTANCE OF %.2f %s"
LinearDescribe(m) ==
  BearingDescribe(FromAngle(m.bearing)) \o <<" ", "A", " ", "D", "I", "S", "T", "A", "N", "C", "E",
        " ", "O", "F", " ">>
    \o FormatFixed2(m.distance) \o <<" ">> \o ToUpper(m.unit)

\* a faulty LinearMete.Preamble, which compares within a tolerance of 1e-9
LinearPreambleTolerant(m, prevTan) ==
  IF FLt(FAbs(FSub(prevTan, m.bearing)), FDiv(FromInt(1), FromInt(1000000000)))
  THEN <<"A", " ", "P", "O", "I", "N", "T", " ", "O", "F", " ", "T", "A", "N", "G", "E", "N", "C",
        "Y">>
  ELSE <<"A", " ", "P", "O", "I", "N", "T", " ", "O", "F", " ", "N", "O", "N", "-", "T", "A", "N",
        "G", "E", "N", "C", "Y">>

\* LinearMete.Preamble
LinearPreamble(m, prevTan) ==
  IF FEq(prevTan, m.bearing) THEN <<"A", " ", "P", "O", "I", "N", "T", " ", "O", "F", " ", "T",
        "A", "N", "G", "E", "N", "C", "Y">>
  ELSE <<"A", " ", "P", "O", "I", "N", "T", " ", "O", "F", " ", "N", "O", "N", "-", "T", "A", "N",
        "G", "E", "N", "C", "Y">>

\* Rotation
Clockwise == 1
CounterClockwise == -1

\* NewArcMete(central, rad, tan, unit, rot)
NewArcMete(central, rad, tan, unit, rot) ==
  [kind |-> "ArcMete", centralAngle |-> central, radius |-> rad, unit |-> unit,
   tangent |-> tan, dir |-> rot]

\* ArcMete.Tangent
ArcTangent(am) == am.tangent

\* ArcMete.ChordAngle
ChordAngle(am) ==
  FAdd(am.tangent, FDiv(FMul(FromInt(am.dir), am.centralAngle), FromInt(2)))

\* the float64 concaveBearing of ArcMete.Concavity
ConcaveBearing(am) ==
  FAdd(FAdd(am.tangent, FDiv(FMul(FromInt(am.dir), am.centralAngle), FromInt(2))),
       FDiv(FMul(FromInt(am.dir), Pi), FromInt(4)))

\* ArcMete.Concavity
Concavity(am) == DirectionFromAngle(ConcaveBearing(am))

\* ArcMete.ArcLength
ArcLength(am) == FMul(am.radius, am.centralAngle)

\* a faulty ArcMete.Describe, which names the direction of the concavity
ArcDescribeConcave(am) ==
  DirDescribe(Concavity(am))
    \o <<"E", "R", "L", "Y", " ", "A", "L", "O", "N", "G", " ", "S", "A", "I", "D", " ", "C", "U",
          "R", "V", "E", " ", "T", "H", "R", "O", "U", "G", "H", " ", "A", " ", "C", "E", "N", "T",
          "R", "A", "L", " ", "A", "N", "G", "L", "E", " ", "O", "F", " ">>
    \o BearingDescribe(FromAngle(am.centralAngle))
    \o <<" ", "A", "N", " ", "A", "R", "C", " ", "D", "I", "S", "T", "A", "N", "C", "E", " ", "O",
          "F", " ">> \o FormatFixed2(ArcLength(am)) \o <<" ">> \o am.unit

\* ArcMete.Describe
ArcDescribe(am) ==
  DirDescribe(DirectionFromAngle(ChordAngle(am)))
    \o <<"E", "R", "L", "Y", " ", "A", "L", "O", "N", "G", " ", "S", "A", "I", "D", " ", "C", "U",
          "R", "V", "E", " ", "T", "H", "R", "O", "U", "G", "H", " ", "A", " ", "C", "E", "N", "T",
          "R", "A", "L", " ", "A", "N", "G", "L", "E", " ", "O", "F", " ">>
    \o BearingDescribe(FromAngle(am.centralAngle))
    \o <<" ", "A", "N", " ", "A", "R", "C", " ", "D", "I", "S", "T", "A", "N", "C", "E", " ", "O",
          "F", " ">> \o FormatFixed2(ArcLength(am)) \o <<" ">> \o am.unit

\* the float64 radial of ArcMete.Preamble
Radial(am) == FAdd(FAdd(am.tangent, FDiv(FMul(FromInt(am.dir), Pi), FromInt(4))), PiOver2)

\* ArcMete.Preamble
ArcPreamble(am, prevAngle) ==
  LET Curve(kind) ==
        <<"T", "H", "E", " ", "B", "E", "G", "I", "N", "N", "I", "N", "G", " ", "O", "F", " ", "A",
              " ">> \o kind \o <<"C", "U", "R", "V", "E", " ", "C", "O", "N", "C", "A", "V", "E",
              " ">> \o DirDescribe(Concavity(am))
          \o <<"E", "R", "L", "Y", ",", " ", "S", "A", "I", "D", " ", "C", "U", "R", "V", "E", " ",
                "H", "A", "S", " ", "A", " ", "R", "A", "D", "I", "U", "S", " ", "O", "F",
                " ">> \o FormatFixed2(am.radius)
          \o <<" ">> \o am.unit
  IN IF FEq(prevAngle, am.tangent) THEN Curve(<<>>)
     ELSE Curve(<<"N", "O", "N", "-", "T", "A", "N", "G", "E", "N", "T", " ">>) \o <<",", " ", "T",
           "O", " ", "W", "H", "I", "C", "H", " ", "A", " ", "R", "A", "D", "I", "A", "L", " ",
           "L", "I", "N", "E", " ", "B", "E", "A", "R", "S", " ">>
            \o BearingDescribe(FromAngle(Radial(am)))

\* the methods of interface Mete, dispatched on the dynamic type
Tangent(m) == IF m.kind = "LinearMete" THEN LinearTangent(m) ELSE ArcTangent(m)
Describe(m) == IF m.kind = "LinearMete" THEN LinearDescribe(m) ELSE ArcDescribe(m)
Preamble(m, prevTan) ==
  IF m.kind = "LinearMete" THEN LinearPreamble(m, prevTan) ELSE ArcPreamble(m, prevTan)

---------------------------------------------------------------------------
(* Description.Describe: the template, piece by piece                      *)

\* "{{.Kind}} DESCRIPTION:\n\nA PART OF ... DESCRIBED AS FOLLOWS:\n"
Header(x) ==
  x.Kind \o <<" ", "D", "E", "S", "C", "R", "I", "P", "T", "I", "O", "N", ":", "\n", "\n", "A",
        " ", "P", "A", "R", "T", " ", "O", "F", " ">>
    \o (IF x.Lot # <<>> THEN <<"L", "O", "T", " ">> \o x.Lot \o <<",", " ">> ELSE <<>>)
    \o (IF x.Block # <<>> THEN <<"B", "L", "O", "C", "K", " ">> \o x.Block \o <<",",
          " ">> ELSE <<>>)
    \o x.Subdivision \o <<" ", "T", "O", " ">>
    \o (IF x.City # <<>> THEN <<"T", "H", "E", " ", "C", "I", "T", "Y", " ", "O", "F",
          " ">> \o x.City \o <<",", " ">> ELSE <<>>)
    \o x.County \o <<" ", "C", "O", "U", "N", "T", "Y", ",", " ">> \o x.State
    \o <<",", " ", "B", "E", "I", "N", "G", " ", "M", "O", "R", "E", " ", "P", "A", "R", "T", "I",
          "C", "U", "L", "A", "R", "L", "Y", " ", "D", "E", "S", "C", "R", "I", "B", "E", "D", " ",
          "A", "S", " ", "F", "O", "L", "L", "O", "W", "S", ":", "\n">>

\* "{{if eq .Commencement true}}COMMENCING {{else}}BEGINNING {{end}} AT THE
\*  {{.Start.Describe}} CORNER OF SAID LOT{{if ne .Lot ""}} {{.Lot}}{{end}}; "
Corner(x) ==
  (IF x.Commencement = TRUE THEN <<"C", "O", "M", "M", "E", "N", "C", "I", "N", "G",
        " ">> ELSE <<"B", "E", "G", "I", "N", "N", "I", "N", "G", " ">>)
    \o <<" ", "A", "T", " ", "T", "H", "E", " ">> \o DirDescribe(x.Start) \o <<" ", "C", "O", "R",
          "N", "E", "R", " ", "O", "F", " ", "S", "A", "I", "D", " ", "L", "O", "T">>
    \o (IF x.Lot # <<>> THEN <<" ">> \o x.Lot ELSE <<>>)
    \o <<";", " ">>

\* a faulty range body, which writes the TO clause before the first mete too
ToClauseEvery(i, m, pt) == <<"T", "O", " ">> \o Preamble(m, pt) \o <<";", " ">>

\* "{{if ne $i 0}}TO {{$m.Preamble $prevtan}}; {{end}}"
ToClause(i, m, pt) == IF i # 0 THEN <<"T", "O", " ">> \o Preamble(m, pt) \o <<";", " ">> ELSE <<>>

\* "THENCE {{$m.Describe}} "
ThenceClause(m) == <<"T", "H", "E", "N", "C", "E", " ">> \o Describe(m) \o <<" ">>

\* "TO THE POINT OF BEGINNING, CONTAINING {{.Area}} {{.Unit}} MORE OR LESS."
Closing(x) ==
  <<"T", "O", " ", "T", "H", "E", " ", "P", "O", "I", "N", "T", " ", "O", "F", " ", "B", "E", "G",
        "I", "N", "N", "I", "N", "G", ",", " ", "C", "O", "N", "T", "A", "I", "N", "I", "N", "G",
        " ">> \o FormatValue(x.Area) \o <<" ">> \o x.Unit
    \o <<" ", "M", "O", "R", "E", " ", "O", "R", " ", "L", "E", "S", "S", ".">>

\* "{{$prevtan := 0.0}}"
InitialPrevTan == FZero

\* a faulty range body, which hands the tangent of the mete just written to
\* the next Preamble
PrevTanThreaded(pt, m) == Tangent(m)

\* $prevtan after one pass through the range body for mete m: the body holds
\* no assignment to it
PrevTanAfter(pt, m) == pt

\* s without its character at position k
Without(s, k) == SubSeq(s, 1, k - 1) \o SubSeq(s, k + 1, Len(s))

\* a faulty removal, which takes the first semicolon of s
RemoveFirstSemi(s) ==
  IF \E k \in 1..Len(s) : s[k] = ";"
  THEN Without(s, CHOOSE k \in 1..Len(s) : s[k] = ";" /\ \A j \in 1..(k - 1) : s[j] # ";")
  ELSE s

\* lines 396-400: lastSemi := strings.LastIndex(legal, ";") and the slicing
RemoveLastSemi(s) ==
  LET Remove(lastSemi) == IF lastSemi # 0 THEN Without(s, lastSemi) ELSE s
  IN Remove(LastIndex(s, ";"))

\* one entry of the history variable emitted: the clause written, the mete it
\* belongs to (-1 for none), where it lies in the buffer, where the
\* template's own semicolon lies (0 for none) and the $prevtan value handed
\* to Preamble (FZero when Preamble is not called)
Entry(clause, seg, first, last, semi, pt) ==
  [clause |-> clause, seg |-> seg, first |-> first, last |-> last, semi |-> semi, prev |-> pt]

NoDescription == [Kind |-> <<>>, Lot |-> <<>>, Block |-> <<>>, Subdivision |-> <<>>,
                  City |-> <<>>, County |-> <<>>, State |-> <<>>, Start |-> North,
                  Commencement |-> FALSE, Area |-> FZero, Unit |-> <<>>, Metes |-> <<>>]

\* the part of the state Describe does not touch / the Bearing calls do not touch
bearingVars == <<b, err, angle, call, ret>>
describeVars == <<d, pc, idx, prevtan, result, legal, emitted>>

\* t.Execute(&result, d) begins: the header text up to "AS FOLLOWS:\n"
ExecHeader ==
  /\ pc = "start"
  /\ result' = Header(d)
  /\ emitted' = <<Entry("header", -1, 1, Len(result'), 0, FZero)>>
  /\ pc' = "corner"
  /\ UNCHANGED <<d, idx, prevtan, legal, bearingVars>>

\* the corner clause, which ends in "; ", and {{$prevtan := 0.0}}
ExecCorner ==
  /\ pc = "corner"
  /\ result' = result \o Corner(d)
  /\ emitted' = Append(emitted, Entry("corner", -1, Len(result) + 1, Len(result'),
                                      Len(result') - 1, FZero))
  /\ prevtan' = InitialPrevTan
  /\ idx' = 0
  /\ pc' = "range"
  /\ UNCHANGED <<d, legal, bearingVars>>

\* the buffer and the history after the clauses to and th of mete i are
\* written; to is empty for the first mete and ends in "; " otherwise
WriteClauses(i, to, th) ==
  /\ result' = result \o to \o th
  /\ emitted' =
       emitted
         \o (IF i # 0
             THEN <<Entry("to", i, Len(result) + 1, Len(result) + Len(to),
                          Len(result) + Len(to) - 1, prevtan)>>
             ELSE <<>>)
         \o <<Entry("thence", i, Len(result) + Len(to) + 1, Len(result'), 0, FZero)>>

\* one pass through the body of {{range $i, $m := .Metes}}
ExecRange ==
  /\ pc = "range"
  /\ idx < Len(d.Metes)
  /\ WriteClauses(idx, ToClause(idx, d.Metes[idx + 1], prevtan), ThenceClause(d.Metes[idx + 1]))
  /\ prevtan' = PrevTanAfter(prevtan, d.Metes[idx + 1])
  /\ idx' = idx + 1
  /\ UNCHANGED <<d, pc, legal, bearingVars>>

\* {{end}} of the range, the closing text, and Execute returns nil
ExecClosing ==
  /\ pc = "range"
  /\ idx = Len(d.Metes)
  /\ result' = result \o Closing(d)
  /\ emitted' = Append(emitted, Entry("closing", -1, Len(result) + 1, Len(result'), 0, FZero))
  /\ pc' = "strip"
  /\ UNCHANGED <<d, idx, prevtan, legal, bearingVars>>

\* legal := result.String(), the removal of the last semicolon, and return
StripSemicolon ==
  /\ pc = "strip"
  /\ legal' = RemoveLastSemi(result)
  /\ pc' = "done"
  /\ UNCHANGED <<d, idx, prevtan, result, emitted, bearingVars>>

---------------------------------------------------------------------------
(* Inputs                                                                  *)

\* the longest Metes slice explored
MaxMetes == 3

\* the sample angles of DirectionFromAngle are k * (math.Pi / 16) for k in
\* -AngleSteps .. AngleSteps
AngleSteps == 40

PiOver6 == Mk(1, <<29542, 28762, 1352, 134>>, -53)   \* math.Pi / 6.0

\* South 87<deg>30'54" East, the bearing of the package's tests
TestBearing == Bearing(South, 87, 30, FromInt(54), East)

LineNorth == NewLinearMete(FZero, FromInt(5), <<"f", "e", "e", "t">>)
LineEast == NewLinearMete(ToAngle(TestBearing), ParseFloat(<<"9", "9", ".", "8", "8">>), <<"f",
      "e", "e", "t">>)
CurveNorth == NewArcMete(PiOver4, FromInt(25), FZero, <<"F", "E", "E", "T">>, CounterClockwise)
CurveEast == NewArcMete(PiOver4, FromInt(25), PiOver6, <<"F", "E", "E", "T">>, Clockwise)
LineChains == NewLinearMete(PiOver6, FromInt(2), <<"c", "h", ";", " ", "g", "u", "n", "t", "e",
      "r">>)
MeteSet == {LineNorth, LineEast, CurveNorth, CurveEast, LineChains}

MeteSeqs == UNION {[1..n -> MeteSet] : n \in 0..MaxMetes}

Profiles ==
  { [Kind |-> <<"E", "A", "S", "E", "M", "E", "N", "T">>, Lot |-> <<"4", ";", " ", "5">>,
        Block |-> <<"1", "5">>, Subdivision |-> <<"O", "A", "K", " ", "P", "A", "R", "K">>,
     City |-> <<"B", "R", "Y", "A", "N", "T">>, County |-> <<"S", "A", "L", "I", "N", "E">>,
           State |-> <<"A", "R", "K", "A", "N", "S", "A", "S">>, Start |-> NorthEast,
     Commencement |-> TRUE, Area |-> FromInt(1200), Unit |-> <<"S", "Q", "U", "A", "R", "E", " ",
           "F", "E", "E", "T">>],
    [Kind |-> <<"T", "R", "A", "C", "T">>, Lot |-> <<>>, Block |-> <<>>, Subdivision |-> <<"O",
          "A", "K", " ", "P", "A", "R", "K">>,
     City |-> <<>>, County |-> <<"S", "A", "L", "I", "N", "E">>, State |-> <<"A", "R", "K", "A",
           "N", "S", "A", "S">>, Start |-> South,
     Commencement |-> FALSE, Area |-> FromInt(3), Unit |-> <<"A", "C", "R", "E", "S">>],
    [Kind |-> <<"T", "R", "A", "C", "T">>, Lot |-> <<"7">>, Block |-> <<>>, Subdivision |-> <<"O",
          "A", "K", " ", "P", "A", "R", "K">>,
     City |-> <<>>, County |-> <<"S", "A", "L", "I", "N", "E">>, State |-> <<"A", "R", "K", "A",
           "N", "S", "A", "S">>, Start |-> West,
     Commencement |-> TRUE, Area |-> FromInt(0), Unit |-> <<"S", "Q", " ", "F", "T", ";", " ", "M",
           "E", "A", "S", "U", "R", "E", "D">>] }

WithMetes(p, ms) ==
  [Kind |-> p.Kind, Lot |-> p.Lot, Block |-> p.Block, Subdivision |-> p.Subdivision,
   City |-> p.City, County |-> p.County, State |-> p.State, Start |-> p.Start,
   Commencement |-> p.Commencement, Area |-> p.Area, Unit |-> p.Unit, Metes |-> ms]

Descriptions == {WithMetes(p, ms) : p \in Profiles, ms \in MeteSeqs}

\* arguments of NewBearing: every pair of Directions with one valid triple,
\* and the four quadrants with values at and around the limits
DegArgs == {-1, 0, 10, 87, 89, 90, 91}
MinArgs == {-1, 0, 15, 47, 59, 60, 61}
SecArgs == {FNeg(FromInt(1)), FZero, FromInt(30), ParseFloat(<<"5", "9", ".", "5">>), FromInt(60),
      FromInt(61)}
NewBearingArgs ==
  {<<p, snd, 10, 15, FromInt(30)>> : p \in Directions, snd \in Directions}
    \cup {<<p, snd, dg, mn, sc>> : p \in {North, South}, snd \in {East, West},
                                   dg \in DegArgs, mn \in MinArgs, sc \in SecArgs}

\* arguments of Bearing.FromAngle besides the results of ToAngle
AngleArgs ==
  {FZero, PiOver6, PiOver4, PiOver2, Pi3Over4, Pi, Pi3Over2, TwoPi, FAdd(TwoPi, PiOver6),
   FNeg(PiOver6), FNeg(PiOver2), FNeg(Pi), FDiv(Pi, FromInt(180)),
   FromInt(1), FromInt(4), FromInt(100), FNeg(FromInt(2)), ParseFloat(<<"5", ".", "5">>)}

\* arguments of Bearing.FromString
BearingStrings ==
  { <<"N", "1", "0", "d", "1", "5", "m", "3", "0", "s", "W">>, <<"S", "o", "u", "t", "h", " ", "8",
        "7", "<", "d", "e", "g", ">", "3", "0", "'", "5", "4", "\"", " ", "E", "a", "s", "t", ",",
        " ", "5", ".", "0", "0", " ", "f", "e", "e", "t">>, <<"S", "o", "u", "t", "h", " ", "8",
        "7", "<", "d", "e", "g", ">", "3", "0", "'", "5", "4", ".", "2", "5", "\"", " ", "E", "a",
        "s", "t">>, <<"T", "H", "E", "N", "C", "E", " ", "(", "6", ")", " ", "N", "1", "D", "1",
        "5", "M", "0", ".", "1", "S", "W">>,
    <<"S", "4", "5", "|", "1", "0", "|", "1", "0", "|", "E">>, <<"N", "9", "9", "D", "7", "5", "M",
          "6", "1", ".", "5", "S", "E">>, <<"|", "1", "0", "D", "1", "5", "M", "3", "0", "S",
          "W">>, <<"N", "1", "0", "D", "1", "5", "M", "3", "0", "S", "|">>,
    <<"N", "O", "R", "T", "H", " ", "1", "0", " ", "1", "5", " ", "3", "0", " ", "W", "E", "S",
          "T">>, <<>>, <<"n", "1", "0", "d", "1", "5", "m", "3", "0", "s", "w">> }

\* arguments of DirectionFromAngle
DirAngles ==
  {FDiv(FMul(FromInt(k), Pi), FromInt(16)) : k \in -AngleSteps..AngleSteps}
    \cup {FZero, PiOver4, PiOver2, Pi3Over4, Pi, Pi3Over2, TwoPi}

\* arguments of DirectionFromString
DirStrings ==
  {p[1] : p \in dirMap}
    \cup {<<" ">> \o p[1] \o <<"\t">> : p \in dirMap}
    \cup { <<"n", "o", "r", "t", "h">>, <<" ", "s", "w", " ">>, <<"N", "o", "r", "t", "h", "E",
          "a", "s", "t">>, <<"n", " ", "e">>, <<"U", "P">>, <<>>, <<"N", "O", "R", "T", "H", "W",
          "E", "S", "T", "E", "R", "L", "Y">>,
         <<"s">>, <<"N", "N", "E">>, <<"N", "O", "R", "T", "H", " ", "E", "A", "S", "T">>, <<"\n",
               "E", "a", "s", "t", " ">> }

NoCall == [op |-> "none", args |-> <<>>]

---------------------------------------------------------------------------
(* Description.Describe, one call per behaviour                            *)

InitDescribe ==
  /\ d \in Descriptions
  /\ pc = "start"
  /\ idx = 0
  /\ prevtan = FZero
  /\ result = <<>>
  /\ legal = <<>>
  /\ emitted = <<>>
  /\ b = ZeroBearing
  /\ err = FALSE
  /\ angle = FZero
  /\ call = NoCall
  /\ ret = <<>>

NextDescribe == ExecHeader \/ ExecCorner \/ ExecRange \/ ExecClosing \/ StripSemicolon

SpecDescribe == InitDescribe /\ [][NextDescribe]_vars

---------------------------------------------------------------------------
(* Bearing: calls on one Bearing value b                                   *)

\* the Bearing and the error of the pair r become b and err
Return(r) == b' = r.b /\ err' = r.err

\* b, err := NewBearing(p, snd, d, m, s), the first call of a run
CallNewBearing ==
  /\ call.op = "none"
  /\ \E a \in NewBearingArgs :
       /\ Return(NewBearing(a[1], a[2], a[3], a[4], a[5]))
       /\ call' = [op |-> "NewBearing", args |-> a]
  /\ angle' = FZero
  /\ UNCHANGED <<ret, describeVars>>

\* err := b.FromString(s) on a fresh Bearing or on the receiver of an
\* earlier FromString
CallFromString ==
  /\ call.op \in {"none", "FromString"}
  /\ \E s \in BearingStrings :
       /\ Return(FromString(b, s))
       /\ call' = [op |-> "FromString", args |-> <<s>>]
  /\ angle' = FZero
  /\ UNCHANGED <<ret, describeVars>>

\* angle := b.ToAngle() on a Bearing that was built without error
CallToAngle ==
  /\ call.op \in {"NewBearing", "FromString"}
  /\ ~err
  /\ angle' = ToAngle(b)
  /\ call' = [op |-> "ToAngle", args |-> <<b>>]
  /\ UNCHANGED <<b, err, ret, describeVars>>

\* b.FromAngle(theta) with a literal angle on a fresh Bearing
CallFromAngle ==
  /\ call.op = "none"
  /\ \E theta \in AngleArgs :
       /\ b' = FromAngle(theta)
       /\ call' = [op |-> "FromAngle", args |-> <<theta>>]
  /\ err' = FALSE
  /\ angle' = FZero
  /\ UNCHANGED <<ret, describeVars>>

\* b2.FromAngle(b1.ToAngle()): the round trip of TestBearingRoundTrip; args
\* keeps b1
CallRoundTrip ==
  /\ call.op = "ToAngle"
  /\ b' = FromAngle(angle)
  /\ call' = [op |-> "RoundTrip", args |-> <<b>>]
  /\ UNCHANGED <<err, angle, ret, describeVars>>

InitBearing ==
  /\ d = NoDescription
  /\ pc = "idle"
  /\ idx = 0
  /\ prevtan = FZero
  /\ result = <<>>
  /\ legal = <<>>
  /\ emitted = <<>>
  /\ b = ZeroBearing
  /\ err = FALSE
  /\ angle = FZero
  /\ call = NoCall
  /\ ret = <<>>

NextBearing == CallNewBearing \/ CallFromString \/ CallToAngle \/ CallFromAngle \/ CallRoundTrip

SpecBearing == InitBearing /\ [][NextBearing]_vars

---------------------------------------------------------------------------
(* Direction: the three functions on Direction values                      *)

\* ret := DirectionFromAngle(theta)
CallDirectionFromAngle ==
  /\ \E theta \in DirAngles :
       /\ ret' = <<DirectionFromAngle(theta)>>
       /\ call' = [op |-> "DirectionFromAngle", args |-> <<theta>>]
  /\ UNCHANGED <<b, err, angle, describeVars>>

\* ret, err := DirectionFromString(s)
CallDirectionFromString ==
  /\ \E s \in DirStrings :
       /\ ret' = DirectionFromString(s)
       /\ call' = [op |-> "DirectionFromString", args |-> <<s>>]
  /\ UNCHANGED <<b, err, angle, describeVars>>

\* ret := dir.Describe()
CallDirDescribe ==
  /\ \E dir \in Directions :
       /\ ret' = DirDescribe(dir)
       /\ call' = [op |-> "Describe", args |-> <<dir>>]
  /\ UNCHANGED <<b, err, angle, describeVars>>

\* ret, ok := DirectionFromString(dir.Describe())
CallDescribeFromString ==
  /\ \E dir \in Directions :
       /\ ret' = DirectionFromString(DirDescribe(dir))
       /\ call' = [op |-> "DescribeFromString", args |-> <<dir>>]
  /\ UNCHANGED <<b, err, angle, describeVars>>

NextDirection ==
  CallDirectionFromAngle \/ CallDirectionFromString \/ CallDirDescribe \/ CallDescribeFromString

SpecDirection == InitBearing /\ [][NextDirection]_vars

---------------------------------------------------------------------------
(* Mete: the three methods called on one mete                              *)

\* arguments of NewArcMete and NewLinearMete
CentralArgs == {PiOver6, PiOver4, PiOver2}
TangentArgs == {FZero, PiOver6, PiOver2, Pi, FNeg(PiOver6), ToAngle(TestBearing)}
MeteArgs ==
  MeteSet
    \cup {NewArcMete(c, FromInt(25), t, <<"f", "e", "e", "t">>, r) :
            c \in CentralArgs, t \in TangentArgs, r \in {Clockwise, CounterClockwise}}
    \cup {NewLinearMete(t, FromInt(5), <<"f", "e", "e", "t">>) : t \in TangentArgs}

\* x + 2^-40, an angle that differs from x by less than 1e-12
Nudge(x) == FAdd(x, Mk(1, <<0, 0, 0, 128>>, -92))

\* arguments of Preamble for a mete of tangent t: 0.0 as in the template,
\* another angle, t itself and an angle next to t
PrevTangentArgs(t) == {FZero, PiOver4, t, Nudge(t)}

\* m := NewLinearMete(...) or m := NewArcMete(...); args keeps m
CallNewMete ==
  /\ call.op = "none"
  /\ \E m \in MeteArgs : call' = [op |-> "NewMete", args |-> <<m>>]
  /\ UNCHANGED <<b, err, angle, ret, describeVars>>

\* angle := m.Tangent()
CallTangent ==
  /\ call.op = "NewMete"
  /\ angle' = Tangent(call.args[1])
  /\ call' = [op |-> "Mete.Tangent", args |-> call.args]
  /\ UNCHANGED <<b, err, ret, describeVars>>

\* m.Preamble(prevTan); args keeps m and prevTan
CallPreamble ==
  /\ call.op = "Mete.Tangent"
  /\ \E pt \in PrevTangentArgs(angle) :
       /\ ret' = <<Preamble(call.args[1], pt)>>
       /\ call' = [op |-> "Mete.Preamble", args |-> <<call.args[1], pt>>]
  /\ UNCHANGED <<b, err, angle, describeVars>>

\* m.Describe(), after m.Preamble as in the range body of the template; ret
\* keeps the text of Preamble, then the text of Describe
CallDescribe ==
  /\ call.op = "Mete.Preamble"
  /\ ret' = Append(ret, Describe(call.args[1]))
  /\ call' = [op |-> "Mete.Describe", args |-> call.args]
  /\ UNCHANGED <<b, err, angle, describeVars>>

NextMete == CallNewMete \/ CallTangent \/ CallPreamble \/ CallDescribe

SpecMete == InitBearing /\ [][NextMete]_vars

---------------------------------------------------------------------------
(* Properties of Description.Describe                                      *)

Count(s, c) == Cardinality({k \in 1..Len(s) : s[k] = c})
HasPrefix(s, p) == Len(s) >= Len(p) /\ SubSeq(s, 1, Len(p)) = p

\* the clauses of the metes from index i on, every Preamble taking 0.0
RECURSIVE SegmentsText(_, _)
SegmentsText(ms, i) ==
  IF i > Len(ms) THEN <<>>
  ELSE ToClause(i - 1, ms[i], FZero) \o ThenceClause(ms[i]) \o SegmentsText(ms, i + 1)

\* header, corner clause, per-mete clauses and closing, unprocessed
NaiveText(x) == Header(x) \o Corner(x) \o SegmentsText(x.Metes, 1) \o Closing(x)

\* the text of entry e of the history
TextOf(e) == SubSeq(result, e.first, e.last)

\* the entries written for "TO {preamble}; "
ToEntries == {k \in 1..Len(emitted) : emitted[k].clause = "to"}

\* C1: the string returned by Describe is the unprocessed concatenation of
\* header, corner clause, per-mete clauses and closing with exactly one
\* character deleted, the last ';' of that concatenation: it is one character
\* shorter, holds one semicolon fewer, and is otherwise unchanged.
C1_LastSemicolonRemoved ==
  pc = "done" =>
    /\ result = NaiveText(d)
    /\ \E k \in 1..Len(result) :
         /\ result[k] = ";"
         /\ \A j \in (k + 1)..Len(result) : result[j] # ";"
         /\ legal = SubSeq(result, 1, k - 1) \o SubSeq(result, k + 1, Len(result))
    /\ Len(legal) = Len(result) - 1
    /\ Count(legal, ";") = Count(result, ";") - 1

\* a finished Describe of three metes whose unprocessed text holds four or
\* more semicolons
C1_Witness ==
  /\ pc = "done"
  /\ Len(d.Metes) = 3
  /\ Count(result, ";") >= 4
  /\ Count(legal, ";") = Count(result, ";") - 1

\* C2: the semicolon Describe deletes is the one the template wrote last: the
\* one ending the final "TO {preamble};" clause when there are two or more
\* metes, the one ending the corner clause when there is exactly one, whatever
\* the metadata and unit texts are.
C2_TemplateSemicolonRemoved ==
  pc = "done" =>
    /\ Len(d.Metes) >= 2 =>
         \E k \in ToEntries :
           /\ emitted[k].seg = Len(d.Metes) - 1
           /\ legal = Without(result, emitted[k].semi)
    /\ Len(d.Metes) = 1 => legal = Without(result, emitted[2].semi)

C4_CornerClauseSingleSpace ==
  Len(emitted) >= 2 =>
    TextOf(emitted[2]) =
      (IF d.Commencement THEN <<"C", "O", "M", "M", "E", "N", "C", "I", "N", "G", " ">> ELSE <<"B",
            "E", "G", "I", "N", "N", "I", "N", "G", " ">>)
        \o <<"A", "T", " ", "T", "H", "E", " ">> \o DirDescribe(d.Start) \o <<" ", "C", "O", "R",
              "N", "E", "R", " ", "O", "F", " ", "S", "A", "I", "D", " ", "L", "O", "T">>
        \o (IF d.Lot # <<>> THEN <<" ">> \o d.Lot ELSE <<>>) \o <<";", " ">>

---------------------------------------------------------------------------
(* Properties of Bearing                                                   *)

\* primary in {North, South} and secondary in {East, West}
InQuadrant(bb) == bb.primary \in {North, South} /\ bb.secondary \in {East, West}

\* a canonical-range bearing: deg in 0..89, min in 0..59, sec in [0, 60)
Canonical(bb) ==
  /\ InQuadrant(bb)
  /\ bb.deg \in 0..89
  /\ bb.min \in 0..59
  /\ FLe(FZero, bb.sec)
  /\ FLt(bb.sec, FromInt(60))

\* a bearing within the inclusive limits of NewBearing
Accepted(bb) ==
  /\ InQuadrant(bb)
  /\ bb.deg \in 0..90
  /\ bb.min \in 0..60
  /\ FLe(FZero, bb.sec)
  /\ FLe(bb.sec, FromInt(60))

Micro == Mk(1, <<28045, 16747, 7134, 134>>, -72)   \* 1e-6
Pico == Mk(1, <<27153, 603, 24166, 140>>, -92)     \* 1e-12

\* |x - y| <= eps
Within(x, y, eps) == FLe(FAbs(FSub(x, y)), eps)

C6_BearingInQuadrant ==
  (call.op \in {"NewBearing", "FromString", "FromAngle", "RoundTrip"} /\ ~err) => InQuadrant(b)

\* C7: for every canonical-range bearing, FromAngle(ToAngle(b)) has the
\* degrees and minutes of b, and seconds within 1e-6 of b's.
C7_RoundTripWithinMicro ==
  (call.op = "RoundTrip" /\ Canonical(call.args[1])) =>
    /\ b.deg = call.args[1].deg
    /\ b.min = call.args[1].min
    /\ Within(b.sec, call.args[1].sec, Micro)

\* C8: for every canonical-range bearing of any quadrant, ToAngle followed by
\* FromAngle yields a Bearing equal to it in all five fields.
C8_RoundTripEqual ==
  (call.op = "RoundTrip" /\ Canonical(call.args[1])) =>
    /\ b.primary = call.args[1].primary
    /\ b.secondary = call.args[1].secondary
    /\ b.deg = call.args[1].deg
    /\ b.min = call.args[1].min
    /\ FEq(b.sec, call.args[1].sec)

\* the angle the formula (base + sign*(deg + min/60 + sec/3600))*pi/180 gives
FormulaAngle(bb) ==
  LET base == IF bb.primary = North THEN FZero ELSE FromInt(180)
      sign == IF (bb.primary = North /\ bb.secondary = East)
                 \/ (bb.primary = South /\ bb.secondary = West)
              THEN FromInt(1) ELSE FromInt(-1)
      dms  == FAdd(FAdd(FromInt(bb.deg), FDiv(FromInt(bb.min), FromInt(60))),
                   FDiv(bb.sec, FromInt(3600)))
  IN FDiv(FMul(FAdd(base, FMul(sign, dms)), Pi), FromInt(180))

\* (91 + 1/60) degrees and (271 + 1/60) degrees in radians
LeastAngle == FNeg(FDiv(FMul(FAdd(FromInt(91), FDiv(FromInt(1), FromInt(60))), Pi), FromInt(180)))
GreatestAngle == FDiv(FMul(FAdd(FromInt(271), FDiv(FromInt(1), FromInt(60))), Pi), FromInt(180))

\* C10, amended: for every Bearing NewBearing accepts, ToAngle returns
\* (base + sign*(deg + min/60 + sec/3600))*pi/180 up to float64 rounding
\* (within 1e-12), base 0 for North and 180 for South, sign +1 for (N,E) and
\* (S,W) and -1 otherwise, and the result lies between -(91 + 1/60) degrees and
\* (271 + 1/60) degrees, in radians.
C10_ToAngleFormulaAndRange ==
  (call.op = "ToAngle" /\ Accepted(call.args[1])) =>
    /\ Within(angle, FormulaAngle(call.args[1]), Pico)
    /\ FLe(FSub(LeastAngle, Pico), angle)
    /\ FLe(angle, FAdd(GreatestAngle, Pico))

\* ToAngle of South 90<deg>60'60" West is (271 + 1/60) degrees, beyond pi
C10_Witness ==
  /\ call.op = "ToAngle"
  /\ call.args[1] = Bearing(South, 90, 60, FromInt(60), West)
  /\ FLt(Pi, angle)
  /\ Within(angle, GreatestAngle, Pico)

\* C10 as stated: the result of ToAngle lies in [-pi, pi].
C10_ToAngleWithinPi ==
  (call.op = "ToAngle" /\ Accepted(call.args[1])) =>
    /\ Within(angle, FormulaAngle(call.args[1]), Pico)
    /\ FLe(FNeg(Pi), angle)
    /\ FLe(angle, Pi)

---------------------------------------------------------------------------
(* Properties of Direction                                                 *)

\* theta brought into [0, 2*pi)
Normalized(theta) ==
  LET r == FMod(theta, TwoPi)
  IN IF FLt(r, FZero) THEN FAdd(r, TwoPi) ELSE r

\* the boundary policy on an angle of [0, 2*pi)
Policy(t) ==
  IF FEq(t, FZero) THEN North
  ELSE IF FLt(t, PiOver4) THEN NorthEast
  ELSE IF FEq(t, PiOver4) THEN East
  ELSE IF FLt(t, PiOver2) THEN SouthEast
  ELSE IF FEq(t, PiOver2) THEN South
  ELSE IF FLt(t, Pi3Over4) THEN SouthWest
  ELSE IF FEq(t, Pi3Over4) THEN West
  ELSE NorthWest

\* C9: for every angle, negative, in [0, 2*pi) or beyond, DirectionFromAngle
\* is the boundary policy applied to the angle normalized into [0, 2*pi).
C9_DirectionOfNormalizedAngle ==
  call.op = "DirectionFromAngle" => ret[1] = Policy(Normalized(call.args[1]))

---------------------------------------------------------------------------
(* Properties of DirectionFromString                                       *)

\* the eight full direction names and the eight abbreviations, by Direction
CompassNames == << <<"N", "O", "R", "T", "H">>, <<"N", "O", "R", "T", "H", "E", "A", "S", "T">>,
      <<"E", "A", "S", "T">>, <<"S", "O", "U", "T", "H", "E", "A", "S", "T">>,
                   <<"S", "O", "U", "T", "H">>, <<"S", "O", "U", "T", "H", "W", "E", "S", "T">>,
                         <<"W", "E", "S", "T">>, <<"N", "O", "R", "T", "H", "W", "E", "S", "T">> >>
Initials == << <<"N">>, <<"N", "E">>, <<"E">>, <<"S", "E">>, <<"S">>, <<"S", "W">>, <<"W">>, <<"N",
      "W">> >>

\* u is the full name or the abbreviation of Direction dd
Names(u, dd) == u = CompassNames[dd + 1] \/ u = Initials[dd + 1]

\* u is the full name or the two-letter abbreviation of Direction dd
NamesTwoLetter(u, dd) ==
  u = CompassNames[dd + 1] \/ (Len(Initials[dd + 1]) = 2 /\ u = Initials[dd + 1])

\* C11, amended: DirectionFromString(s) succeeds exactly when s, upper-cased
\* and with its leading and trailing white space removed, is one of the 8
\* full direction names or one of the 8 abbreviations N, NE, E, SE, S, SW, W,
\* NW, and then returns the named Direction; for every other string it
\* reports failure; and DirectionFromString(d.Describe()) returns d for each
\* of the 8 Directions d.
C11_NamesAndInitialsTrimmed ==
  /\ call.op = "DirectionFromString" =>
       /\ ret[2] <=> \E dd \in Directions : Names(TrimSpace(ToUpper(call.args[1])), dd)
       /\ ret[2] => Names(TrimSpace(ToUpper(call.args[1])), ret[1])
       /\ ~ret[2] => ret[1] = 0
  /\ call.op = "DescribeFromString" => ret = <<call.args[1], TRUE>>

\* " sw ", in lower case and between spaces, has been recognized as SouthWest
C11_Witness ==
  /\ call.op = "DirectionFromString"
  /\ call.args[1] = <<" ", "s", "w", " ">>
  /\ ret = <<SouthWest, TRUE>>

\* C11 as stated: DirectionFromString(s) succeeds exactly when s, compared
\* case-insensitively, is one of the 8 full direction names or one of the
\* two-letter abbreviations, and then returns the named Direction; and
\* DirectionFromString(d.Describe()) returns d.
C11_NamesAndTwoLetterAbbreviations ==
  /\ call.op = "DirectionFromString" =>
       /\ ret[2] <=> \E dd \in Directions : NamesTwoLetter(ToUpper(call.args[1]), dd)
       /\ ret[2] => NamesTwoLetter(ToUpper(call.args[1]), ret[1])
  /\ call.op = "DescribeFromString" => ret = <<call.args[1], TRUE>>

---------------------------------------------------------------------------
(* Properties of the metes                                                 *)

\* p occurs in s
Contains(s, p) == \E k \in 1..(Len(s) - Len(p) + 1) : SubSeq(s, k, k + Len(p) - 1) = p
HasSuffix(s, p) == Len(s) >= Len(p) /\ SubSeq(s, Len(s) - Len(p) + 1, Len(s)) = p

\* tangentAngle + rotation*centralAngle/2
ChordFormula(am) ==
  FAdd(am.tangent, FDiv(FMul(FromInt(am.dir), am.centralAngle), FromInt(2)))

\* tangentAngle + rotation*centralAngle/2 + rotation*pi/4
ConcavityFormula(am) == FAdd(ChordFormula(am), FDiv(FMul(FromInt(am.dir), Pi), FromInt(4)))

\* the text of Describe starts with the word of Direction dir
DescribeWord(text, dir) == HasPrefix(text, CompassNames[dir + 1] \o <<"E", "R", "L", "Y", " ", "A",
      "L", "O", "N", "G", " ", "S", "A", "I", "D", " ", "C", "U", "R", "V", "E", " ">>)

\* the text of Preamble has the word of Direction dir after CONCAVE
ConcaveWord(text, dir) == Contains(text, <<" ", "C", "O", "N", "C", "A", "V", "E",
      " ">> \o CompassNames[dir + 1] \o <<"E", "R", "L", "Y", ",", " ">>)

\* C12, amended: the direction word that starts ArcMete.Describe's text is
\* the Direction DirectionFromAngle gives for the chord angle tangentAngle +
\* rotation*centralAngle/2; the word Preamble prints after CONCAVE is the one
\* it gives for the concavity angle, the chord angle + rotation*pi/4.
C12_DescribeWordFromChordAngle ==
  (call.op = "Mete.Describe" /\ call.args[1].kind = "ArcMete") =>
    /\ DescribeWord(ret[2], DirectionFromAngle(ChordFormula(call.args[1])))
    /\ ConcaveWord(ret[1], DirectionFromAngle(ConcavityFormula(call.args[1])))

\* the arc of central angle pi/4 that starts on tangent pi/6 and turns
\* clockwise runs SOUTHEASTERLY ALONG SAID CURVE and is CONCAVE SOUTHWESTERLY
C12_Witness ==
  /\ call.op = "Mete.Describe"
  /\ call.args[1] = CurveEast
  /\ DescribeWord(ret[2], SouthEast)
  /\ ConcaveWord(ret[1], SouthWest)

\* C12 as stated: the direction word that starts ArcMete.Describe's text is
\* the Direction obtained from the concavity angle tangentAngle +
\* rotation*centralAngle/2 + rotation*pi/4, the word Preamble prints after
\* CONCAVE.
C12_DescribeWordFromConcavity ==
  (call.op = "Mete.Describe" /\ call.args[1].kind = "ArcMete") =>
    /\ DescribeWord(ret[2], DirectionFromAngle(ConcavityFormula(call.args[1])))
    /\ ConcaveWord(ret[1], DirectionFromAngle(ConcavityFormula(call.args[1])))

---------------------------------------------------------------------------
(* The order of the clauses of Description.Describe                        *)

\* the k-th clause of a description of n metes and the mete it belongs to
\* (-1 for none): header, corner, THENCE 0, then TO i and THENCE i for each
\* i from 1 to n - 1, then the closing
ClauseAt(k, n) ==
  IF k = 1 THEN <<"header", -1>>
  ELSE IF k = 2 THEN <<"corner", -1>>
  ELSE IF k = (IF n = 0 THEN 3 ELSE 2 * n + 2) THEN <<"closing", -1>>
  ELSE IF k = 3 THEN <<"thence", 0>>
  ELSE IF k % 2 = 0 THEN <<"to", (k - 2) \div 2>>
  ELSE <<"thence", (k - 3) \div 2>>

\* the clauses of kind c written so far
ClausesOf(c) == {k \in 1..Len(emitted) : emitted[k].clause = c}

\* the text of the k-th clause written is the text the template gives it
ClauseText(k) ==
  LET e == emitted[k]
  IN CASE e.clause = "thence" ->
            TextOf(e) = <<"T", "H", "E", "N", "C", "E", " ">> \o Describe(d.Metes[e.seg + 1]) \o <<" ">>
       [] e.clause = "to" ->
            /\ HasPrefix(TextOf(e), <<"T", "O", " ">>)
            /\ HasSuffix(TextOf(e), <<";", " ">>)
            /\ e.semi = e.last - 1
       [] e.clause = "closing" ->
            /\ HasPrefix(TextOf(e), <<"T", "O", " ", "T", "H", "E", " ", "P", "O", "I", "N", "T",
                  " ", "O", "F", " ", "B", "E", "G", "I", "N", "N", "I", "N", "G", ",", " ", "C",
                  "O", "N", "T", "A", "I", "N", "I", "N", "G", " ">>)
            /\ HasSuffix(TextOf(e), <<" ", "M", "O", "R", "E", " ", "O", "R", " ", "L", "E", "S",
                  "S", ".">>)
       [] OTHER -> TRUE

\* C13: for a sequence of n metes Describe writes the clauses in traversal
\* order, one after the other in the buffer: after header and corner clause,
\* "THENCE {render} " for mete 0, then for each mete i >= 1 "TO {preamble}; "
\* immediately followed by "THENCE {render} " of mete i, then the closing "TO
\* THE POINT OF BEGINNING, CONTAINING ..."; when Execute has returned there
\* are exactly n THENCE clauses, max(n - 1, 0) TO clauses and one closing.
C13_ClausesInTraversalOrder ==
  /\ \A k \in 1..Len(emitted) :
       /\ <<emitted[k].clause, emitted[k].seg>> = ClauseAt(k, Len(d.Metes))
       /\ emitted[k].first = (IF k = 1 THEN 1 ELSE emitted[k - 1].last + 1)
       /\ emitted[k].last >= emitted[k].first
       /\ ClauseText(k)
  /\ Len(emitted) > 0 => emitted[Len(emitted)].last = Len(result)
  /\ Len(emitted) = 0 => result = <<>>
  /\ pc \in {"strip", "done"} =>
       /\ Cardinality(ClausesOf("thence")) = Len(d.Metes)
       /\ Cardinality(ClausesOf("to")) = (IF Len(d.Metes) = 0 THEN 0 ELSE Len(d.Metes) - 1)
       /\ Cardinality(ClausesOf("closing")) = 1
       /\ emitted[Len(emitted)].clause = "closing"
       /\ \A k \in ClausesOf("to") :
            emitted[k].seg >= 1 /\ emitted[k + 1].clause = "thence"
              /\ emitted[k + 1].seg = emitted[k].seg

\* a finished description of three metes, the third an arc: eight clauses,
\* with TO and THENCE of the arc in the sixth and seventh place
C13_Witness ==
  /\ pc = "done"
  /\ Len(d.Metes) = 3
  /\ d.Metes[3].kind = "ArcMete"
  /\ Len(emitted) = 8
  /\ <<emitted[6].clause, emitted[6].seg>> = <<"to", 2>>
  /\ <<emitted[7].clause, emitted[7].seg>> = <<"thence", 2>>
  /\ HasPrefix(TextOf(emitted[6]), <<"T", "O", " ", "T", "H", "E", " ", "B", "E", "G", "I", "N",
        "N", "I", "N", "G", " ", "O", "F", " ", "A", " ">>)
  /\ Contains(TextOf(emitted[7]), <<"E", "R", "L", "Y", " ", "A", "L", "O", "N", "G", " ", "S",
        "A", "I", "D", " ", "C", "U", "R", "V", "E", " ">>)
  /\ emitted[8].clause = "closing"

---------------------------------------------------------------------------
(* Properties of Preamble                                                  *)

\* tangentAngle + rotation*pi/4 + pi/2
RadialFormula(am) ==
  FAdd(FAdd(am.tangent, FDiv(FMul(FromInt(am.dir), Pi), FromInt(4))), FDiv(Pi, FromInt(2)))

---------------------------------------------------------------------------
(* Properties of Bearing.FromAngle                                         *)

\* the angle the last FromAngle was called with
ThetaOfCall == IF call.op = "FromAngle" THEN call.args[1] ELSE angle

\* the angle that remains after the quadrant selection, and its value in
\* degrees, theta * 180.0 / pi
RemainingOfCall == Quadrant(Reduce(ThetaOfCall))[3]
TotalOfCall == FDiv(FMul(RemainingOfCall, FromInt(180)), Pi)

\* (total - deg) * 60 for the deg of b
TotalMinutesOfCall == FMul(FSub(TotalOfCall, FromInt(b.deg)), FromInt(60))

\* b holds the truncation of TotalOfCall: deg and min are the whole parts,
\* sec is what remains
Truncation ==
  /\ FLe(FromInt(b.deg), TotalOfCall)
  /\ FLt(TotalOfCall, FromInt(b.deg + 1))
  /\ FLe(FromInt(b.min), TotalMinutesOfCall)
  /\ FLt(TotalMinutesOfCall, FromInt(b.min + 1))
  /\ FEq(b.sec, FMul(FSub(TotalMinutesOfCall, FromInt(b.min)), FromInt(60)))

\* C15, amended: for every finite angle theta, FromAngle leaves, after the
\* quadrant selection, a remaining angle in [0, 90] degrees and produces
\* degrees in 0..90, minutes in 0..59 and seconds in [0, 60), by truncation
\* only; degrees = 90 comes with 0 minutes and 0 seconds.
C15_FromAngleTruncatesUpTo90 ==
  call.op \in {"FromAngle", "RoundTrip"} =>
    /\ FLe(FZero, RemainingOfCall)
    /\ FLe(RemainingOfCall, PiOver2)
    /\ b.deg \in 0..90
    /\ b.min \in 0..59
    /\ FLe(FZero, b.sec)
    /\ FLt(b.sec, FromInt(60))
    /\ b.deg = 90 => (b.min = 0 /\ FEq(b.sec, FZero))
    /\ Truncation

\* FromAngle(math.Pi/2.0) has given South 90<deg>0'0" East
C15_Witness ==
  /\ call.op = "FromAngle"
  /\ call.args[1] = PiOver2
  /\ FEq(RemainingOfCall, PiOver2)
  /\ b.primary = South
  /\ b.secondary = East
  /\ b.deg = 90
  /\ b.min = 0
  /\ FEq(b.sec, FZero)

\* C15 as stated: the remaining angle is in [0, 90) degrees, degrees are in
\* 0..89, minutes in 0..59, seconds in [0, 60), by truncation only.
C15_FromAngleCanonicalRanges ==
  call.op \in {"FromAngle", "RoundTrip"} =>
    /\ FLe(FZero, RemainingOfCall)
    /\ FLt(RemainingOfCall, PiOver2)
    /\ b.deg \in 0..89
    /\ b.min \in 0..59
    /\ FLe(FZero, b.sec)
    /\ FLt(b.sec, FromInt(60))
    /\ Truncation

\* C16: every Bearing produced by a successful NewBearing, by a successful
\* FromString (so for every text that matches the pattern, whatever its
\* digits) or by FromAngle has degrees in [0,90], minutes in [0,60] and
\* seconds in [0,60]: a text with a component outside those limits is
\* rejected with an error, never stored.
C16_ComponentsWithinLimits ==
  (call.op \in {"NewBearing", "FromString", "FromAngle", "RoundTrip"} /\ ~err) =>
    /\ b.deg \in 0..90
    /\ b.min \in 0..60
    /\ FLe(FZero, b.sec)
    /\ FLe(b.sec, FromInt(60))

====
